---------------------------- MODULE Spec2Model ----------------------------
(***************************************************************************)
(* A model of screenorder.py: the xrandr report parser, the monitor        *)
(* resolver (configure_monitors), the command builders and the run (main). *)
(* Python strings are sequences of one-character strings; a dict is a      *)
(* function whose DOMAIN is its key set.                                    *)
(***************************************************************************)
EXTENDS Integers, Sequences, FiniteSets, TLC

VARIABLES
    pc,               \* the position of the run in main
    raised,           \* the exception that ended the run, or NoError
    exit_status,      \* the argument of sys.exit, or None while running
    args,             \* the parsed command line: dry_run, force_panning
    input,            \* the lines of xrandr_output not read yet
    nread,            \* the number of lines read
    line,             \* the line of the current loop iteration
    state,            \* parse_xrandr_output: "scanning" or "munching"
    identifier,       \* parse_xrandr_output: the tracked identity
    res,              \* the parser's result mapping; main's monitors
    disabled,         \* the parser's disabled set
    tmp_res,          \* the parser's accumulation buffer
    seen,             \* every identity that line 67 assigned to identifier
    config,           \* the configuration read_monitor_config returned
    ordered_monitors, \* the keys of configure_monitors' result, in order, or None
    cmd,              \* the display-tool command
    cmds,             \* the window-manager commands
    i3_probe,         \* the return code of pgrep -x i3, or None before the probe
    i3_index,         \* the number of window-manager commands handled
    printed,          \* the commands printed, in order
    issued            \* the generated commands executed, in order, with exit status

parser_vars == <<state, identifier, res, disabled, tmp_res, line, nread, seen>>

run_vars == <<exit_status, args, config, ordered_monitors, cmd, cmds, i3_probe,
              i3_index, printed, issued>>

vars == <<pc, raised, input, parser_vars, run_vars>>

-----------------------------------------------------------------------------
(* Bounds of the model. *)

\* SpecParser feeds the parser every sequence of at most MaxLines lines.
MaxLines == 6

-----------------------------------------------------------------------------
(* Python values. *)

\* Python's None: no sequence of one-character strings equals it.
None == <<"<None>">>

\* No exception is pending.
NoError == "none"

\* exit_status while the run has not called sys.exit.
NotExited == -1

\* i3_probe before is_i3_running has been called.
NoProbe == -1

WhiteSpace == {" ", "\t"}

DigitChars == {"0", "1", "2", "3", "4", "5", "6", "7", "8", "9"}

HexChars == DigitChars \cup {"a", "b", "c", "d", "e", "f"}

\* str.strip(): leading and trailing whitespace removed.
RECURSIVE LStrip(_)
LStrip(s) ==
    IF s # <<>> /\ Head(s) \in WhiteSpace THEN LStrip(Tail(s)) ELSE s

RECURSIVE RStrip(_)
RStrip(s) ==
    IF s # <<>> /\ s[Len(s)] \in WhiteSpace
    THEN RStrip(SubSeq(s, 1, Len(s) - 1))
    ELSE s

Strip(s) == RStrip(LStrip(s))

\* str.startswith(prefix)
StartsWith(s, prefix) ==
    Len(s) >= Len(prefix) /\ SubSeq(s, 1, Len(prefix)) = prefix

\* sub in s, for strings
Contains(s, sub) ==
    \E i \in 1..(Len(s) - Len(sub) + 1) : SubSeq(s, i, i + Len(sub) - 1) = sub

\* The index after the longest run of characters of cs that starts at index i.
RECURSIVE SpanEnd(_, _, _)
SpanEnd(s, i, cs) ==
    IF i <= Len(s) /\ s[i] \in cs THEN SpanEnd(s, i + 1, cs) ELSE i

\* line.split()[0]: the first whitespace-delimited token.
FirstToken(s) ==
    LET b == SpanEnd(s, 1, WhiteSpace)
        e == SpanEnd(s, b, {c \in {s[i] : i \in 1..Len(s)} : c \notin WhiteSpace})
    IN SubSeq(s, b, e - 1)

\* "".join(parts)
RECURSIVE Join(_)
Join(parts) ==
    IF parts = <<>> THEN <<>> ELSE Head(parts) \o Join(Tail(parts))

-----------------------------------------------------------------------------
(* The patterns of parse_xrandr_output. *)

EdidMarker == <<"E", "D", "I", "D", ":">>

HeaderPrefixes ==
    { <<"D", "P", "-">>, <<"H", "D", "M", "I", "-">>,
      <<"e", "D", "P", "-">>, <<"D", "V", "I", "-">> }

IsHeader(s) == \E p \in HeaderPrefixes : StartsWith(s, p)

PreferredFlag == <<"+", "p", "r", "e", "f", "e", "r", "r", "e", "d">>

\* re.match(r"\s*(\d+x\d+) \(0x[0-9a-f]+\)", s): the match as
\* [ok, group (the text of group 1), stop (the index after the match)].
ModeMatch(s) ==
    LET b  == SpanEnd(s, 1, WhiteSpace)
        w  == SpanEnd(s, b, DigitChars)
        h  == SpanEnd(s, w + 1, DigitChars)
        x  == SpanEnd(s, h + 4, HexChars)
        ok == /\ w > b
              /\ w <= Len(s) /\ s[w] = "x"
              /\ h > w + 1
              /\ h + 3 <= Len(s)
              /\ SubSeq(s, h, h + 3) = <<" ", "(", "0", "x">>
              /\ x > h + 4
              /\ x <= Len(s) /\ s[x] = ")"
    IN [ok |-> ok,
        group |-> IF ok THEN SubSeq(s, b, h - 1) ELSE <<>>,
        stop |-> IF ok THEN x + 1 ELSE 0]

\* re.match(r"\s*(\d+x\d+) \(0x[0-9a-f]+\)", s) matches.
IsMode(s) == ModeMatch(s).ok

\* re.match(r"\s*(\d+x\d+) \(0x[0-9a-f]+\).*\+preferred", s) matches.
IsPreferredMode(s) ==
    LET m == ModeMatch(s)
    IN m.ok /\ Contains(SubSeq(s, m.stop, Len(s)), PreferredFlag)

\* match.groups()[0]
ModeGroup(s) == ModeMatch(s).group

-----------------------------------------------------------------------------
(* dict helpers. *)

\* d[k] = v on a dict d
SetKey(d, k, v) ==
    [x \in DOMAIN d \cup {k} |-> IF x = k THEN v ELSE d[x]]

EmptyDict == [x \in {} |-> x]

-----------------------------------------------------------------------------
(* Report lines. *)

L_DP1 == <<"D", "P", "-", "1", " ", "c">>

L_HDMI2 == <<"H", "D", "M", "I", "-", "2", " ", "c">>

L_EDID == <<"\t", "E", "D", "I", "D", ":", " ">>

L_HEX_A == <<"\t", "\t", "0", "a">>

L_HEX_B == <<"\t", "\t", "f", "f">>

L_PROP == <<"\t", "B", "p", "c", ":", " ", "8">>

L_SCREEN == <<"S", "c", "r", "e", "e", "n", " ", "0">>

ModeLine(w, h, tail) ==
    <<" ", " ">> \o w \o <<"x">> \o h \o <<" ", "(", "0", "x", "1", "c", ")">> \o tail

PreferredTail == <<" ", "+", "H", " ">> \o PreferredFlag

PlainTail == <<" ", "+", "H">>

D1920 == <<"1", "9", "2", "0">>

D1200 == <<"1", "2", "0", "0">>

D1080 == <<"1", "0", "8", "0">>

D1280 == <<"1", "2", "8", "0">>

D1024 == <<"1", "0", "2", "4">>

L_PREF_A == ModeLine(D1920, D1200, PreferredTail)

L_PREF_B == ModeLine(D1920, D1080, PreferredTail)

L_MODE_B == ModeLine(D1920, D1080, PlainTail)

L_MODE_C == ModeLine(D1280, D1024, PlainTail)

\* The lines SpecParser draws a report from.
Alphabet ==
    { L_DP1, L_HDMI2, L_EDID, L_HEX_A, L_HEX_B, L_PROP, L_SCREEN,
      L_PREF_A, L_PREF_B, L_MODE_B, L_MODE_C }

-----------------------------------------------------------------------------
(* parse_xrandr_output *)

\* The update of line 72 under the test of line 77.
PreferredModeUpdateIfAbsent(entry, group) ==
    IF "resolution" \notin DOMAIN entry
    THEN [x \in DOMAIN entry \cup {"resolution"} |->
            IF x = "resolution" THEN group ELSE entry[x]]
    ELSE entry

\* Line 72: a +preferred mode line stores its resolution in the entry.
PreferredModeUpdate(entry, group) == SetKey(entry, "resolution", group)

\* The update of line 78 without the test of line 77.
PlainModeUpdateAlways(entry, group) == SetKey(entry, "resolution", group)

\* Lines 77-78: a plain mode line stores its resolution if none is stored.
PlainModeUpdate(entry, group) ==
    IF "resolution" \notin DOMAIN entry
    THEN SetKey(entry, "resolution", group)
    ELSE entry

\* Line 82: res[identifier] = {"edid": "".join(tmp_res)}
EndOfDescriptor(r, id, edid) == SetKey(r, id, [edid |-> edid])

\* Lines 65-66: the identity tracked so far is disabled if it has no entry.
DisabledAtHeader(dis, id, r) ==
    IF id # None /\ id \notin DOMAIN r THEN dis \cup {id} ELSE dis

\* The body of the loop over xrandr_output.splitlines(), for one line l.
\* A KeyError ends the function: the run is left at pc = "raised".
ParseBody(l) ==
    /\ line' = l
    /\ nread' = nread + 1
    /\ IF state = "scanning"
       THEN IF Strip(l) = EdidMarker
            THEN /\ state' = "munching"
                 /\ UNCHANGED <<identifier, res, disabled, tmp_res, seen, pc, raised>>
            ELSE IF IsHeader(l)
            THEN /\ disabled' = DisabledAtHeader(disabled, identifier, res)
                 /\ identifier' = FirstToken(l)
                 /\ seen' = seen \cup {FirstToken(l)}
                 /\ UNCHANGED <<state, res, tmp_res, pc, raised>>
            ELSE IF IsPreferredMode(l)
            THEN IF identifier \in DOMAIN res
                 THEN /\ res' = [res EXCEPT ![identifier] =
                                    PreferredModeUpdate(@, ModeGroup(l))]
                      /\ UNCHANGED <<state, identifier, disabled, tmp_res, seen, pc, raised>>
                 ELSE /\ pc' = "raised"
                      /\ raised' = "KeyError"
                      /\ UNCHANGED <<state, identifier, res, disabled, tmp_res, seen>>
            ELSE IF IsMode(l)
            THEN IF identifier \in DOMAIN res
                 THEN /\ res' = [res EXCEPT ![identifier] =
                                    PlainModeUpdate(@, ModeGroup(l))]
                      /\ UNCHANGED <<state, identifier, disabled, tmp_res, seen, pc, raised>>
                 ELSE /\ pc' = "raised"
                      /\ raised' = "KeyError"
                      /\ UNCHANGED <<state, identifier, res, disabled, tmp_res, seen>>
            ELSE UNCHANGED <<state, identifier, res, disabled, tmp_res, seen, pc, raised>>
       ELSE IF Contains(l, <<":">>)
            THEN /\ state' = "scanning"
                 /\ res' = EndOfDescriptor(res, identifier, Join(tmp_res))
                 /\ tmp_res' = <<>>
                 /\ UNCHANGED <<identifier, disabled, seen, pc, raised>>
            ELSE /\ tmp_res' = Append(tmp_res, Strip(l))
                 /\ UNCHANGED <<state, identifier, res, disabled, seen, pc, raised>>

\* One iteration of the loop on a report that may hold any line next.
FeedLine ==
    /\ pc = "parse"
    /\ nread < MaxLines
    /\ \E l \in Alphabet : ParseBody(l)
    /\ UNCHANGED <<input, run_vars>>

\* The loop is over: return res, disabled.
ParseEnd ==
    /\ pc = "parse"
    /\ input = <<>>
    /\ pc' = "parsed"
    /\ UNCHANGED <<input, parser_vars, raised, run_vars>>

InitParser ==
    /\ state = "scanning"
    /\ identifier = None
    /\ res = EmptyDict
    /\ disabled = {}
    /\ tmp_res = <<>>
    /\ line = None
    /\ nread = 0
    /\ seen = {}
    /\ raised = NoError

InitRun ==
    /\ exit_status = NotExited
    /\ config = None
    /\ ordered_monitors = None
    /\ cmd = None
    /\ cmds = None
    /\ i3_probe = NoProbe
    /\ i3_index = 0
    /\ printed = <<>>
    /\ issued = <<>>

InitAnyReport ==
    /\ pc = "parse"
    /\ input = <<>>
    /\ args = [dry_run |-> FALSE, force_panning |-> FALSE]
    /\ InitParser
    /\ InitRun

NextParser == FeedLine \/ ParseEnd

\* The parser on every report of at most MaxLines lines of Alphabet.
SpecParser == InitAnyReport /\ [][NextParser]_vars

-----------------------------------------------------------------------------
(* Numbers and text. *)

DigitSeq == <<"0", "1", "2", "3", "4", "5", "6", "7", "8", "9">>

DigitVal(c) == (CHOOSE d \in 1..10 : DigitSeq[d] = c) - 1

\* int(s) for a string of decimal digits
RECURSIVE ToInt(_)
ToInt(s) ==
    IF Len(s) = 1
    THEN DigitVal(s[1])
    ELSE 10 * ToInt(SubSeq(s, 1, Len(s) - 1)) + DigitVal(s[Len(s)])

\* str(n), the text an f-string gives a non-negative int
RECURSIVE ToStr(_)
ToStr(n) ==
    IF n < 10
    THEN <<DigitSeq[n + 1]>>
    ELSE ToStr(n \div 10) \o <<DigitSeq[(n % 10) + 1]>>

\* s.split(sep), for a one-character separator
RECURSIVE Split(_, _)
Split(s, sep) ==
    LET e == SpanEnd(s, 1, {c \in {s[i] : i \in 1..Len(s)} : c # sep})
    IN IF e > Len(s)
       THEN <<s>>
       ELSE <<SubSeq(s, 1, e - 1)>> \o Split(SubSeq(s, e + 1, Len(s)), sep)

\* bool(x) of a list, a dict keys sequence or None
Falsy(x) == x = None \/ x = <<>>

T_xrandr == <<"x", "r", "a", "n", "d", "r">>

T_fb == <<"-", "-", "f", "b">>

T_output == <<"-", "-", "o", "u", "t", "p", "u", "t">>

T_mode == <<"-", "-", "m", "o", "d", "e">>

T_pos == <<"-", "-", "p", "o", "s">>

T_panning == <<"-", "-", "p", "a", "n", "n", "i", "n", "g">>

T_rotate == <<"-", "-", "r", "o", "t", "a", "t", "e">>

T_primary == <<"-", "-", "p", "r", "i", "m", "a", "r", "y">>

T_off == <<"-", "-", "o", "f", "f">>

T_i3msg == <<"i", "3", "-", "m", "s", "g">>

T_left == <<"l", "e", "f", "t">>

T_right == <<"r", "i", "g", "h", "t">>

T_normal == <<"n", "o", "r", "m", "a", "l">>

WorkspacePrefix ==
    <<"w", "o", "r", "k", "s", "p", "a", "c", "e", " ",
      "n", "u", "m", "b", "e", "r", " ">>

WorkspaceInfix ==
    <<";", " ", "m", "o", "v", "e", " ", "w", "o", "r", "k", "s", "p", "a", "c", "e",
      " ", "t", "o", " ", "o", "u", "t", "p", "u", "t", " ">>

-----------------------------------------------------------------------------
(* get_x_resolution, get_y_resolution *)

IsRotated(monitor) ==
    "rotate" \in DOMAIN monitor /\ monitor["rotate"] \in {T_left, T_right}

\* get_x_resolution without the test of line 93.
get_x_resolution_unrotated(monitor) ==
    ToInt(Split(monitor["resolution"], "x")[1])

get_x_resolution(monitor) ==
    LET parts == Split(monitor["resolution"], "x")
    IN IF IsRotated(monitor) THEN ToInt(parts[2]) ELSE ToInt(parts[1])

\* get_y_resolution without the test of line 102.
get_y_resolution_unrotated(monitor) ==
    ToInt(Split(monitor["resolution"], "x")[2])

get_y_resolution(monitor) ==
    LET parts == Split(monitor["resolution"], "x")
    IN IF IsRotated(monitor) THEN ToInt(parts[1]) ELSE ToInt(parts[2])

-----------------------------------------------------------------------------
(* configure_monitors *)

\* dict.update: the keys of c overwrite those of m.
Update(m, c) ==
    [k \in DOMAIN m \cup DOMAIN c |-> IF k \in DOMAIN c THEN c[k] ELSE m[k]]

\* The keys of selected_monitors: the outputs whose edid is a key of the config.
SelectedKeys(monitors, cfg) ==
    {id \in DOMAIN monitors : monitors[id]["edid"] \in DOMAIN cfg}

\* Line 130: monitor.update(monitor_config) changes the dict held by monitors.
Merged(monitors, cfg) ==
    [id \in DOMAIN monitors |->
        IF id \in SelectedKeys(monitors, cfg)
        THEN Update(monitors[id], cfg[monitors[id]["edid"]])
        ELSE monitors[id]]

\* A collision test that compares the number of monitors with itself.
OrderCollisionBlind(monitors, keys) ==
    Cardinality(keys) # Cardinality(keys)

\* Lines 133-135: the orders of the selected monitors are not pairwise distinct.
OrderCollision(monitors, keys) ==
    Cardinality(keys) # Cardinality({monitors[id]["order"] : id \in keys})

\* The sort of lines 139-141 with reverse=True.
RECURSIVE SortedByOrderDescending(_, _)
SortedByOrderDescending(monitors, keys) ==
    IF keys = {}
    THEN <<>>
    ELSE LET first == CHOOSE id \in keys :
                        \A other \in keys : monitors[id]["order"] >= monitors[other]["order"]
         IN <<first>> \o SortedByOrderDescending(monitors, keys \ {first})

\* Lines 139-141: the keys sorted by their monitor's order (the orders differ).
RECURSIVE SortedByOrder(_, _)
SortedByOrder(monitors, keys) ==
    IF keys = {}
    THEN <<>>
    ELSE LET first == CHOOSE id \in keys :
                        \A other \in keys : monitors[id]["order"] <= monitors[other]["order"]
         IN <<first>> \o SortedByOrder(monitors, keys \ {first})

\* The index of line 143 without the "- 1".
PrimaryMonitorIndexUpper(n) ==
    (IF n > 0 THEN n ELSE 0) \div 2

\* Line 143
PrimaryMonitorIndex(n) ==
    (IF n - 1 > 0 THEN n - 1 ELSE 0) \div 2

\* Lines 144-146: python's enumerate counts from 0.
MarkPrimary(monitors, ordered) ==
    [id \in DOMAIN monitors |->
        IF \E i \in 1..Len(ordered) :
              ordered[i] = id /\ i - 1 = PrimaryMonitorIndex(Len(ordered))
        THEN SetKey(monitors[id], "primary", TRUE)
        ELSE monitors[id]]

\* A resolver that gives up as soon as one output has no configuration entry.
configure_monitors_strict(monitors, cfg) ==
    LET keys    == SelectedKeys(monitors, cfg)
        merged  == Merged(monitors, cfg)
        ordered == SortedByOrder(merged, keys)
    IN IF OrderCollision(merged, keys) \/ keys # DOMAIN monitors
       THEN [monitors |-> merged, ordered |-> None]
       ELSE [monitors |-> MarkPrimary(merged, ordered), ordered |-> ordered]

\* configure_monitors(monitors, config): the monitors as the call leaves them
\* and the keys of the returned dict in order, or None.
configure_monitors(monitors, cfg) ==
    LET keys    == SelectedKeys(monitors, cfg)
        merged  == Merged(monitors, cfg)
        ordered == SortedByOrder(merged, keys)
    IN IF OrderCollision(merged, keys)
       THEN [monitors |-> merged, ordered |-> None]
       ELSE [monitors |-> MarkPrimary(merged, ordered), ordered |-> ordered]

-----------------------------------------------------------------------------
(* generate_xrandr_command *)

\* Lines 160-163: [0] extended by the running sums of the x resolutions.
RECURSIVE Accumulate(_, _)
Accumulate(xs, total) ==
    IF xs = <<>>
    THEN <<>>
    ELSE <<total + Head(xs)>> \o Accumulate(Tail(xs), total + Head(xs))

\* The running sums without the leading 0 of line 160.
OffsetsInclusive(xs) == Accumulate(xs, 0)

Offsets(xs) == <<0>> \o Accumulate(xs, 0)

RECURSIVE Sum(_)
Sum(xs) == IF xs = <<>> THEN 0 ELSE Head(xs) + Sum(Tail(xs))

RECURSIVE Max(_)
Max(xs) ==
    IF Len(xs) = 1
    THEN Head(xs)
    ELSE IF Head(xs) >= Max(Tail(xs)) THEN Head(xs) ELSE Max(Tail(xs))

\* dict.get(key, None)
Get(d, key) == IF key \in DOMAIN d THEN d[key] ELSE None

\* if rotate: on a string or None
Truthy(v) == v # None /\ v # <<>>

\* if primary: on monitor.get("primary", None), a bool or None
PrimaryTruthy(monitor) == "primary" \in DOMAIN monitor /\ monitor["primary"]

\* Lines 179-208: the clause of one monitor.
OutputClause(id, resolution, x_pos, rotate, primary, force_panning) ==
    <<T_output, id, T_mode, resolution, T_pos, ToStr(x_pos) \o <<"x", "0">> >>
    \o (IF force_panning
        THEN <<T_panning, resolution \o <<"+">> \o ToStr(x_pos) \o <<"+", "0">> >>
        ELSE <<>>)
    \o (IF Truthy(rotate) THEN <<T_rotate, rotate>> ELSE <<>>)
    \o (IF primary THEN <<T_primary>> ELSE <<>>)

\* The loop of lines 209-216 left after its first iteration.
OffClausesFirstOnly(ids) ==
    IF ids = <<>> THEN <<>> ELSE <<T_output, Head(ids), T_off>>

\* Lines 209-216: the clauses of the disabled outputs, in iteration order.
RECURSIVE OffClauses(_)
OffClauses(ids) ==
    IF ids = <<>>
    THEN <<>>
    ELSE <<T_output, Head(ids), T_off>> \o OffClauses(Tail(ids))

\* The orders in which iterating a set may yield its elements.
Orderings(S) ==
    {f \in [1..Cardinality(S) -> S] : \A i, j \in 1..Cardinality(S) : i # j => f[i] # f[j]}

\* generate_xrandr_command(ordered_monitors, disabled, force_panning), with the
\* dict given as its values in order and the set in its iteration order.
generate_xrandr_command(keys, values, disabled_order, force_panning) ==
    LET n         == Len(keys)
        xs        == [i \in 1..n |-> get_x_resolution(values[i])]
        ys        == [i \in 1..n |-> get_y_resolution(values[i])]
        offsets   == Offsets(xs)
        fb_width  == Sum(xs)
        fb_height == Max(ys)
        clauses   == [i \in 1..n |->
                        OutputClause(keys[i], values[i]["resolution"], offsets[i],
                                     Get(values[i], "rotate"), PrimaryTruthy(values[i]),
                                     force_panning)]
    IN <<T_xrandr, T_fb, ToStr(fb_width) \o <<"x">> \o ToStr(fb_height)>>
       \o Join(clauses) \o OffClauses(disabled_order)

-----------------------------------------------------------------------------
(* is_i3_running, generate_i3_commands *)

\* Line 222: the CompletedProcess that subprocess.run returns.
is_i3_running(returncode) == [returncode |-> returncode]

\* bool(x) of a CompletedProcess: the class defines neither __bool__ nor __len__.
ObjectTruthy(obj) == TRUE

WorkspaceCommand(workspace, output) ==
    <<T_i3msg, WorkspacePrefix \o ToStr(workspace) \o WorkspaceInfix \o output>>

\* The commands of one monitor without the branch of lines 231-238.
MonitorCommandsOrderOnly(output, monitor) ==
    <<WorkspaceCommand(monitor["order"], output)>>

\* Lines 231-245: the commands of one monitor.
MonitorCommands(output, monitor) ==
    IF "i3-workspaces" \in DOMAIN monitor
    THEN [i \in 1..Len(monitor["i3-workspaces"]) |->
            WorkspaceCommand(monitor["i3-workspaces"][i], output)]
    ELSE <<WorkspaceCommand(monitor["order"], output)>>

generate_i3_commands(keys, values, probe) ==
    IF ~ObjectTruthy(is_i3_running(probe))
    THEN <<>>
    ELSE Join([i \in 1..Len(keys) |-> MonitorCommands(keys[i], values[i])])

-----------------------------------------------------------------------------
(* The reports and configurations of Spec. *)

\* A report of Spec holds at most MaxOutputs output sections.
MaxOutputs == 3

\* The order values of a configuration of Spec are 1..MaxOrder.
MaxOrder == 3

PortPrefixes ==
    << <<"D", "P", "-">>, <<"H", "D", "M", "I", "-">>,
       <<"e", "D", "P", "-">>, <<"D", "V", "I", "-">> >>

\* The connector name of the i-th section.
Port(i) == PortPrefixes[((i - 1) % 4) + 1] \o ToStr(i)

HeaderLine(i) == Port(i) \o <<" ", "c", "o", "n">>

HexLine(i) == <<"\t", "\t", "0">> \o ToStr(i) \o <<" ">>

\* The stable-identity-blob of the monitor of the i-th section.
Blob(i) == <<"0", "a", "0">> \o ToStr(i)

DescriptorBlock(i) == <<L_EDID, L_HEX_A, HexLine(i), L_PROP>>

PreferredLine(i) == IF i % 2 = 1 THEN L_PREF_A ELSE L_PREF_B

\* The shapes of the i-th section. The first output may carry a monitor that
\* reports no mode, the second one a monitor with the descriptor of the first
\* (two monitors of one make).
ShapesAt(i) ==
    {"off", "preferred"}
        \cup (IF i = 1 THEN {"nores"} ELSE {})
        \cup (IF i = 2 THEN {"twin"} ELSE {})

\* The lines of the i-th section: an output without monitor, a monitor whose
\* preferred mode follows a plain one, a monitor without modes.
Section(i, shape) ==
    CASE shape = "off"       -> <<HeaderLine(i), L_PROP>>
      [] shape = "preferred" -> <<HeaderLine(i)>> \o DescriptorBlock(i)
                                    \o <<L_MODE_C, PreferredLine(i)>>
      [] shape = "twin"      -> <<HeaderLine(i)>> \o DescriptorBlock(1)
                                    \o <<PreferredLine(i), L_MODE_C>>
      [] shape = "nores"     -> <<HeaderLine(i)>> \o DescriptorBlock(i)

Reports ==
    { <<L_SCREEN>> \o Join([i \in 1..n |-> Section(i, shapes[i])]) :
        n \in 0..MaxOutputs,
        shapes \in {f \in [1..MaxOutputs -> UNION {ShapesAt(i) : i \in 1..MaxOutputs}] :
                      \A i \in 1..MaxOutputs : f[i] \in ShapesAt(i)} }

ResolutionC == D1280 \o <<"x">> \o D1024

\* The optional keys a configuration entry of Spec may carry.
FeatureList ==
    << EmptyDict,
       "rotate" :> T_left,
       "rotate" :> T_right,
       "primary" :> TRUE,
       "i3-workspaces" :> <<7, 8>>,
       ("resolution" :> ResolutionC) @@ ("rotate" :> T_normal) >>

\* Pattern 0 gives no entry an optional key; pattern p > 0 gives the entries of
\* monitors 1, 2, ... the features p, p + 1, ... of FeatureList (cyclically).
FeatureOf(p, i) ==
    IF p = 0
    THEN EmptyDict
    ELSE FeatureList[((i + p - 2) % Len(FeatureList)) + 1]

ConfigOf(orders, p) ==
    [b \in {Blob(i) : i \in DOMAIN orders} |->
        LET i == CHOOSE j \in DOMAIN orders : Blob(j) = b
        IN ("order" :> orders[i]) @@ FeatureOf(p, i)]

\* The configurations over the monitors idx: an entry for some of them, each
\* with an order of 1..MaxOrder. An entry of a monitor that is not detected is
\* never looked up.
Configs(idx) ==
    { ConfigOf(orders, p) :
        orders \in UNION {[S -> 1..MaxOrder] : S \in SUBSET idx},
        p \in 0..Len(FeatureList) }

DetectedIdx ==
    {i \in 1..MaxOutputs : \E id \in DOMAIN res : res[id]["edid"] = Blob(i)}

-----------------------------------------------------------------------------
(* main *)

\* ordered_monitors.values(): the dicts are those that monitors holds.
OrderedValues(keys, monitors) == [i \in 1..Len(keys) |-> monitors[keys[i]]]

\* One iteration of the parser's loop on the report of the run.
ParseLine ==
    /\ pc = "parse"
    /\ input # <<>>
    /\ ParseBody(Head(input))
    /\ input' = Tail(input)
    /\ UNCHANGED run_vars

\* Line 264
ReadConfig ==
    /\ pc = "parsed"
    /\ \E c \in Configs(DetectedIdx) : config' = c
    /\ pc' = "configure"
    /\ UNCHANGED <<raised, input, parser_vars, exit_status, args, ordered_monitors,
                   cmd, cmds, i3_probe, i3_index, printed, issued>>

\* Lines 265-267
Configure ==
    /\ pc = "configure"
    /\ LET r == configure_monitors(res, config)
       IN /\ res' = r.monitors
          /\ ordered_monitors' = r.ordered
          /\ IF Falsy(r.ordered)
             THEN pc' = "exit" /\ exit_status' = 1
             ELSE pc' = "gen_xrandr" /\ UNCHANGED exit_status
    /\ UNCHANGED <<raised, input, state, identifier, disabled, tmp_res, line, nread,
                   seen, args, config, cmd, cmds, i3_probe, i3_index, printed, issued>>

\* Lines 268-270; monitor["resolution"] raises KeyError for a monitor without one.
GenerateXrandr ==
    /\ pc = "gen_xrandr"
    /\ LET values == OrderedValues(ordered_monitors, res)
       IN IF \E i \in 1..Len(values) : "resolution" \notin DOMAIN values[i]
          THEN /\ pc' = "raised"
               /\ raised' = "KeyError"
               /\ UNCHANGED <<cmd, exit_status>>
          ELSE \E order \in Orderings(disabled) :
                 /\ cmd' = generate_xrandr_command(ordered_monitors, values, order,
                                                   args.force_panning)
                 /\ IF Falsy(cmd')
                    THEN pc' = "exit" /\ exit_status' = 1
                    ELSE pc' = "run_xrandr" /\ UNCHANGED exit_status
                 /\ UNCHANGED raised
    /\ UNCHANGED <<input, parser_vars, args, config, ordered_monitors, cmds,
                   i3_probe, i3_index, printed, issued>>

\* The same with check=False: the exit status is ignored.
PrintAndRunUnchecked(c, next_pc) ==
    /\ printed' = Append(printed, c)
    /\ pc' = next_pc
    /\ UNCHANGED raised
    /\ IF args.dry_run
       THEN UNCHANGED issued
       ELSE \E status \in {0, 1} :
              issued' = Append(issued, [cmd |-> c, status |-> status])

\* The same without the test of --dry_run.
PrintAndRunAlways(c, next_pc) ==
    /\ printed' = Append(printed, c)
    /\ \E status \in {0, 1} :
         /\ issued' = Append(issued, [cmd |-> c, status |-> status])
         /\ IF status = 0
            THEN pc' = next_pc /\ UNCHANGED raised
            ELSE pc' = "raised" /\ raised' = "CalledProcessError"

\* Lines 271-273 and 276-278: print the command, then run it unless --dry_run;
\* a non-zero exit status raises CalledProcessError (check=True).
PrintAndRun(c, next_pc) ==
    IF \E i \in 1..Len(c) : c[i] = None
    THEN /\ pc' = "raised"
         /\ raised' = "TypeError"
         /\ UNCHANGED <<printed, issued>>
    ELSE /\ printed' = Append(printed, c)
         /\ IF args.dry_run
            THEN /\ pc' = next_pc
                 /\ UNCHANGED <<issued, raised>>
            ELSE \E status \in {0, 1} :
                   /\ issued' = Append(issued, [cmd |-> c, status |-> status])
                   /\ IF status = 0
                      THEN pc' = next_pc /\ UNCHANGED raised
                      ELSE pc' = "raised" /\ raised' = "CalledProcessError"

\* Lines 271-273
RunXrandr ==
    /\ pc = "run_xrandr"
    /\ PrintAndRun(cmd, "gen_i3")
    /\ UNCHANGED <<input, parser_vars, exit_status, args, config, ordered_monitors,
                   cmd, cmds, i3_probe, i3_index>>

\* Line 274; pgrep -x i3 returns 0 if an i3 process exists and 1 if none does.
GenerateI3 ==
    /\ pc = "gen_i3"
    /\ \E returncode \in {0, 1} :
         /\ i3_probe' = returncode
         /\ cmds' = generate_i3_commands(ordered_monitors,
                                         OrderedValues(ordered_monitors, res), returncode)
    /\ pc' = "run_i3"
    /\ UNCHANGED <<raised, input, parser_vars, exit_status, args, config,
                   ordered_monitors, cmd, i3_index, printed, issued>>

\* Lines 275-278: one iteration of the loop over cmds.
RunI3 ==
    /\ pc = "run_i3"
    /\ i3_index < Len(cmds)
    /\ PrintAndRun(cmds[i3_index + 1], "run_i3")
    /\ i3_index' = i3_index + 1
    /\ UNCHANGED <<input, parser_vars, exit_status, args, config, ordered_monitors,
                   cmd, cmds, i3_probe>>

\* Line 279
Exit ==
    /\ pc = "run_i3"
    /\ i3_index = Len(cmds)
    /\ pc' = "exit"
    /\ exit_status' = 0
    /\ UNCHANGED <<raised, input, parser_vars, args, config, ordered_monitors, cmd,
                   cmds, i3_probe, i3_index, printed, issued>>

Init ==
    /\ pc = "parse"
    /\ input \in Reports
    /\ args \in [dry_run : BOOLEAN, force_panning : BOOLEAN]
    /\ InitParser
    /\ InitRun

\* Reports in which the header of the first output occurs twice: first without
\* descriptor block, then, after the section of the second output, with one.
RepeatedReports ==
    { <<L_SCREEN>> \o Section(1, "off") \o Section(2, second) \o Section(1, again) :
        second \in ShapesAt(2), again \in {"preferred", "nores"} }

InitRepeated ==
    /\ pc = "parse"
    /\ input \in RepeatedReports
    /\ args \in [dry_run : BOOLEAN, force_panning : BOOLEAN]
    /\ InitParser
    /\ InitRun

Next ==
    \/ ParseLine
    \/ ParseEnd
    \/ ReadConfig
    \/ Configure
    \/ GenerateXrandr
    \/ RunXrandr
    \/ GenerateI3
    \/ RunI3
    \/ Exit

\* The run on the reports and configurations above.
Spec == Init /\ [][Next]_vars

\* The run on the reports with a repeated header.
SpecRepeated == InitRepeated /\ [][Next]_vars

-----------------------------------------------------------------------------
(* Vocabulary of the properties. *)

\* The resolution text WxH.
ResolutionText(w, h) == w \o <<"x">> \o h

\* The mode lines of Alphabet: their text, resolution and +preferred mark.
ModeLines ==
    { [text |-> L_PREF_A, resolution |-> ResolutionText(D1920, D1200), preferred |-> TRUE],
      [text |-> L_PREF_B, resolution |-> ResolutionText(D1920, D1080), preferred |-> TRUE],
      [text |-> L_MODE_B, resolution |-> ResolutionText(D1920, D1080), preferred |-> FALSE],
      [text |-> L_MODE_C, resolution |-> ResolutionText(D1280, D1024), preferred |-> FALSE] }

\* Width and height of the resolutions that occur in the model.
Dimensions(resolution) ==
    CASE resolution = ResolutionText(D1920, D1200) -> <<1920, 1200>>
      [] resolution = ResolutionText(D1920, D1080) -> <<1920, 1080>>
      [] resolution = ResolutionText(D1280, D1024) -> <<1280, 1024>>

\* The layout is built: configure_monitors returned a non-empty layout.
HasLayout == pc \notin {"parse", "parsed", "configure"} /\ ~Falsy(ordered_monitors)

LayoutSize == Len(ordered_monitors)

\* The i-th monitor of the layout.
Layout(i) == res[ordered_monitors[i]]

Turned(monitor) ==
    "rotate" \in DOMAIN monitor /\ (monitor["rotate"] = T_left \/ monitor["rotate"] = T_right)

\* Effective horizontal and vertical extent of a monitor.
ExtentX(monitor) ==
    IF Turned(monitor)
    THEN Dimensions(monitor["resolution"])[2]
    ELSE Dimensions(monitor["resolution"])[1]

ExtentY(monitor) ==
    IF Turned(monitor)
    THEN Dimensions(monitor["resolution"])[1]
    ELSE Dimensions(monitor["resolution"])[2]

\* The sum of the effective horizontal extents of the first k monitors.
RECURSIVE ExtentSum(_)
ExtentSum(k) == IF k = 0 THEN 0 ELSE ExtentSum(k - 1) + ExtentX(Layout(k))

\* The positions of a token in a command, and the i-th of them.
IndexesOf(c, token) == {k \in 1..Len(c) : c[k] = token}

NthIndex(S, i) == CHOOSE k \in S : Cardinality({j \in S : j < k}) = i - 1

\* The display-tool command is built.
HasCommand == HasLayout /\ pc \notin {"gen_xrandr"} /\ cmd # None

\* The outputs whose descriptor has a configuration entry.
MatchedOutputs == {id \in DOMAIN res : res[id]["edid"] \in DOMAIN config}

EntryOf(id) == config[res[id]["edid"]]

\* The outputs whose configuration entry carries a primary flag.
ExplicitPrimary == {id \in MatchedOutputs : "primary" \in DOMAIN EntryOf(id)}

\* The outputs the resolver marked as primary.
MarkedPrimary == {id \in DOMAIN res : "primary" \in DOMAIN res[id] /\ res[id]["primary"]}

\* The output whose clause holds position k of the display-tool command.
ClauseOutput(k) ==
    cmd[(CHOOSE o \in IndexesOf(cmd, T_output) :
            o < k /\ \A q \in IndexesOf(cmd, T_output) : q < k => q <= o) + 1]

IsI3Command(c) == c[1] = T_i3msg

-----------------------------------------------------------------------------
(* C1 *)

\* C1: when the parser has returned, every identity that a header line gave to
\* the parser is in exactly one of the result mapping and the disabled set.
C1_ExactlyOne ==
    pc = "parsed" =>
        \A id \in seen : (id \in DOMAIN res) # (id \in disabled)

(* C2 *)

\* C2: the parser never raises, whatever lines it is given.
C2_NeverRaises == raised = NoError

(* C3 *)

\* C3: a mode line read in scanning state for a tracked identity that has an
\* entry leaves the entry's resolution equal to the line's own resolution if the
\* line is marked +preferred or no resolution was recorded, and to the
\* resolution recorded before otherwise; the other entries are not touched.
C3_ModeLineStep ==
    [][ \A m \in ModeLines :
          ( /\ pc = "parse" /\ state = "scanning"
            /\ nread' = nread + 1 /\ line' = m.text
            /\ identifier \in DOMAIN res )
          => /\ pc' = "parse"
             /\ DOMAIN res' = DOMAIN res
             /\ res'[identifier]["resolution"] =
                   IF m.preferred \/ "resolution" \notin DOMAIN res[identifier]
                   THEN m.resolution
                   ELSE res[identifier]["resolution"]
             /\ \A id \in DOMAIN res \ {identifier} : res'[id] = res[id] ]_vars

\* A plain 1280x1024 line was read for an identity whose recorded resolution
\* 1920x1200 came from a preferred line, and the recorded resolution stayed.
C3_Witness ==
    /\ pc = "parse" /\ state = "scanning" /\ line = L_MODE_C
    /\ identifier \in DOMAIN res
    /\ "resolution" \in DOMAIN res[identifier]
    /\ res[identifier]["resolution"] = ResolutionText(D1920, D1200)

(* C4 *)

\* Two matched outputs have the same order value in their configuration entries.
OrdersCollide ==
    \E a, b \in MatchedOutputs : a # b /\ EntryOf(a)["order"] = EntryOf(b)["order"]

\* C4: after configure_monitors has run on matched outputs with colliding
\* orders, it has returned None, the run has exited with status 1, and no
\* command has been generated, printed or executed.
C4_CollisionAborts ==
    (pc \notin {"parse", "parsed", "configure"} /\ OrdersCollide)
        => /\ ordered_monitors = None
           /\ pc = "exit" /\ exit_status = 1
           /\ cmd = None /\ cmds = None
           /\ printed = <<>> /\ issued = <<>>

\* Two monitors with different descriptors collide on their order.
C4_Witness ==
    /\ pc = "exit" /\ exit_status = 1
    /\ \E a, b \in MatchedOutputs :
          /\ res[a]["edid"] # res[b]["edid"]
          /\ EntryOf(a)["order"] = EntryOf(b)["order"]

(* C5 *)

\* C5: the display-tool command has one --pos clause per monitor of the layout,
\* the i-th in the clause of the i-th monitor and equal to the sum of the
\* effective horizontal extents of the monitors before it, and the width of
\* the --fb clause is the sum of all effective horizontal extents.
C5_PrefixSum ==
    HasCommand =>
        LET pos == IndexesOf(cmd, T_pos)
        IN /\ Cardinality(pos) = LayoutSize
           /\ \A i \in 1..LayoutSize :
                 /\ cmd[NthIndex(pos, i) + 1] = ToStr(ExtentSum(i - 1)) \o <<"x", "0">>
                 /\ cmd[NthIndex(pos, i) - 3] = ordered_monitors[i]
           /\ cmd[2] = T_fb
           /\ Split(cmd[3], "x")[1] = ToStr(ExtentSum(LayoutSize))

\* Three monitors, the first one turned: the offsets are 0, 1200 and 3120.
C5_Witness ==
    /\ HasCommand
    /\ LayoutSize = 3
    /\ Turned(Layout(1))
    /\ ExtentSum(1) = 1200 /\ ExtentSum(2) = 3120 /\ ExtentSum(3) = 5040

(* C6 *)

\* C6: get_x_resolution and get_y_resolution give a monitor turned left or
\* right its height as horizontal and its width as vertical extent and any
\* other monitor its width and height, and the height of the --fb clause is
\* the largest vertical extent of the layout.
C6_AxisSwap ==
    HasCommand =>
        LET fb_height == Split(cmd[3], "x")[2]
            height    == ToInt(fb_height)
        IN /\ \A i \in 1..LayoutSize :
                 LET monitor == Layout(i)
                 IN /\ get_x_resolution(monitor) = ExtentX(monitor)
                    /\ get_y_resolution(monitor) = ExtentY(monitor)
                    /\ height >= ExtentY(monitor)
           /\ \E i \in 1..LayoutSize : fb_height = ToStr(ExtentY(Layout(i)))

\* A turned 1920x1200 monitor, one with rotation "normal" and one without
\* rotation: the framebuffer is 1920 high.
C6_Witness ==
    /\ HasCommand
    /\ \E i, j, k \in 1..LayoutSize :
          /\ Turned(Layout(i)) /\ Layout(i)["resolution"] = ResolutionText(D1920, D1200)
          /\ "rotate" \in DOMAIN Layout(j) /\ Layout(j)["rotate"] = T_normal
          /\ "rotate" \notin DOMAIN Layout(k)
    /\ Split(cmd[3], "x")[2] = D1920

(* C7 *)

C8_ExplicitPrimaryOverrides ==
    (HasLayout /\ \E id \in ExplicitPrimary : EntryOf(id)["primary"])
        => /\ MarkedPrimary = {id \in ExplicitPrimary : EntryOf(id)["primary"]}
           /\ HasCommand =>
                 \A k \in IndexesOf(cmd, T_primary) :
                    ClauseOutput(k) \in {id \in ExplicitPrimary : EntryOf(id)["primary"]}

(* C9 *)

\* C9: when the probe found no i3 process, generate_i3_commands has returned
\* the empty list and the run has executed no i3-msg command.
C9_NoCommandsWithoutI3 ==
    i3_probe = 1
        => /\ cmds = <<>>
           /\ \A k \in 1..Len(issued) : ~IsI3Command(issued[k].cmd)

(* C10 *)

\* C10: the first command executed is the display-tool command, the commands
\* executed after it are the window-manager commands in their computed order,
\* only the last command executed may have failed, and a run whose last
\* command failed has ended with CalledProcessError.
C10_SequentialFailFast ==
    /\ \A k \in 1..Len(issued) :
          /\ k = 1 => issued[k].cmd = cmd
          /\ k > 1 => cmds # None /\ k - 1 <= Len(cmds) /\ issued[k].cmd = cmds[k - 1]
          /\ k < Len(issued) => issued[k].status = 0
    /\ (issued # <<>> /\ issued[Len(issued)].status # 0)
          => pc = "raised" /\ raised = "CalledProcessError"
    /\ (pc = "raised" /\ raised = "CalledProcessError")
          => issued # <<>> /\ issued[Len(issued)].status # 0

\* i3 runs, the first window-manager command failed and two more were computed.
C10_Witness ==
    /\ i3_probe = 0
    /\ pc = "raised"
    /\ Len(issued) = 2 /\ issued[1].status = 0 /\ issued[2].status = 1
    /\ IsI3Command(issued[2].cmd)
    /\ Len(cmds) = 3

(* C11 *)

\* The commands the run has generated so far, in the order main handles them.
Generated ==
    (IF cmd = None THEN <<>> ELSE <<cmd>>) \o (IF cmds = None THEN <<>> ELSE cmds)

\* C11: with --dry_run no command is ever executed and a run that ends with
\* status 0 has printed every generated command; without --dry_run the commands
\* executed are exactly the commands printed, in the same order. In both modes
\* the commands printed are the first of the generated ones.
C11_DryRunPrintsOnly ==
    LET generated == Generated
    IN /\ Len(printed) <= Len(generated)
       /\ printed = SubSeq(generated, 1, Len(printed))
       /\ args.dry_run =>
             /\ issued = <<>>
             /\ (pc = "exit" /\ exit_status = 0) => printed = generated
       /\ ~args.dry_run =>
             /\ Len(issued) = Len(printed)
             /\ \A k \in 1..Len(issued) : issued[k].cmd = printed[k]

\* A dry run has ended after printing the display-tool command and three
\* window-manager commands.
C11_Witness ==
    /\ args.dry_run
    /\ pc = "exit" /\ exit_status = 0
    /\ Len(printed) = 4 /\ IsI3Command(printed[4])
    /\ issued = <<>>

(* C12 *)

Configured == pc \notin {"parse", "parsed", "configure"}

\* The detected outputs whose descriptor has no configuration entry.
UnmatchedOutputs == DOMAIN res \ MatchedOutputs

\* The outputs of the enabled-output clauses (those with --mode) of the command.
EnabledOutputs == {cmd[k - 1] : k \in IndexesOf(cmd, T_mode)}

\* The output a window-manager command moves its workspace to.
TargetOf(c) ==
    LET k == CHOOSE i \in 1..Len(c[2]) :
                SubSeq(c[2], i, i + Len(WorkspaceInfix) - 1) = WorkspaceInfix
    IN SubSeq(c[2], k + Len(WorkspaceInfix), Len(c[2]))

\* C12: once configure_monitors has run, (a) if some output is matched and the
\* orders of the matched outputs differ, the layout holds exactly the matched
\* outputs and the run has not exited with status 1, and the display-tool
\* command is built as soon as generate_xrandr_command has run on monitors that
\* all have a resolution; (b) no unmatched output has an enabled-output clause
\* or is the target of a window-manager command; (c) the run exits with status
\* 1 if no output is matched, and only then or on an order collision, and then
\* no command was generated, printed or executed.
C12_UnmatchedExcluded ==
    Configured =>
        LET matched   == MatchedOutputs
            unmatched == DOMAIN res \ matched
            collide   == OrdersCollide
            enabled   == EnabledOutputs
        IN /\ (matched # {} /\ ~collide) =>
                 /\ ordered_monitors # None
                 /\ {ordered_monitors[i] : i \in 1..Len(ordered_monitors)} = matched
                 /\ exit_status # 1
                 /\ ( /\ pc # "gen_xrandr"
                      /\ \A id \in matched : "resolution" \in DOMAIN res[id] )
                    => /\ cmd # None
                       /\ enabled = matched
           /\ cmd # None => enabled \cap unmatched = {}
           /\ cmds # None =>
                 \A k \in 1..Len(cmds) : TargetOf(cmds[k]) \notin unmatched
           /\ matched = {} => pc = "exit" /\ exit_status = 1
           /\ exit_status = 1 =>
                 /\ matched = {} \/ collide
                 /\ cmd = None /\ cmds = None /\ printed = <<>> /\ issued = <<>>

\* One output is unmatched, two are matched, and the run has ended with
\* status 0 after handling the commands of the two.
C12_Witness ==
    /\ pc = "exit" /\ exit_status = 0
    /\ Cardinality(UnmatchedOutputs) = 1
    /\ Cardinality(MatchedOutputs) = 2
    /\ EnabledOutputs = MatchedOutputs

(* C13 *)

\* The outputs of the disable clauses (--output X --off) of the command.
OffOutputs == {cmd[k - 1] : k \in IndexesOf(cmd, T_off)}

\* C13: an output that the parser put in the disabled set (its header was
\* followed by the next header before it had a descriptor block) is not in the
\* ordered layout, and in the display-tool command it has a disable clause and
\* no enabled-output clause.
C13_DisabledOnlyOff ==
    \A X \in disabled :
        /\ (Configured /\ ordered_monitors # None) =>
              \A i \in 1..Len(ordered_monitors) : ordered_monitors[i] # X
        /\ cmd # None => X \in OffOutputs /\ X \notin EnabledOutputs

(* C14 *)

\* C14: when the orders of the matched outputs are pairwise distinct, the
\* layout holds every matched output exactly once and nothing else, in
\* strictly ascending order of the order values of their configuration
\* entries, and the enabled-output clauses of the display-tool command name
\* the outputs of the layout in the same order.
C14_SortedLayout ==
    (Configured /\ ~OrdersCollide) =>
        /\ ordered_monitors # None
        /\ LayoutSize = Cardinality(MatchedOutputs)
        /\ {ordered_monitors[i] : i \in 1..LayoutSize} = MatchedOutputs
        /\ \A i, j \in 1..LayoutSize :
              i < j => EntryOf(ordered_monitors[i])["order"]
                          < EntryOf(ordered_monitors[j])["order"]
        /\ cmd # None =>
              /\ Cardinality(IndexesOf(cmd, T_mode)) = LayoutSize
              /\ \A i \in 1..LayoutSize :
                    cmd[NthIndex(IndexesOf(cmd, T_mode), i) - 1] = ordered_monitors[i]

\* The three outputs were detected as 1, 2, 3 and are laid out as 3, 1, 2.
C14_Witness ==
    /\ HasCommand
    /\ ordered_monitors = <<Port(3), Port(1), Port(2)>>

(* C15 *)

\* The text of the command that moves a workspace to an output.
MoveText(workspace, output) ==
    WorkspacePrefix \o workspace \o WorkspaceInfix \o output

\* The window-manager commands the first k monitors of the layout call for:
\* those of a configuration entry's workspaces 7 and 8, or one for the order.
RECURSIVE ExpectedI3(_)
ExpectedI3(k) ==
    IF k = 0
    THEN <<>>
    ELSE ExpectedI3(k - 1) \o
         (IF "i3-workspaces" \in DOMAIN EntryOf(ordered_monitors[k])
          THEN << <<T_i3msg, MoveText(<<"7">>, ordered_monitors[k])>>,
                  <<T_i3msg, MoveText(<<"8">>, ordered_monitors[k])>> >>
          ELSE << <<T_i3msg, MoveText(<<DigitSeq[EntryOf(ordered_monitors[k])["order"] + 1]>>,
                                      ordered_monitors[k])>> >>)

\* C15: when i3 runs, the window-manager commands are, monitor by monitor in
\* layout order, one command per workspace of the monitor's list in list order,
\* or one command with the monitor's order as workspace number, each moving the
\* workspace to that monitor's output; so every target is an output of the layout.
C15_WorkspaceCommands ==
    (cmds # None /\ i3_probe = 0) =>
        /\ cmds = ExpectedI3(LayoutSize)
        /\ \A k \in 1..Len(cmds) :
              \E i \in 1..LayoutSize : TargetOf(cmds[k]) = ordered_monitors[i]

\* Three monitors, the second of the layout with the workspaces 7 and 8.
C15_Witness ==
    /\ cmds # None /\ i3_probe = 0
    /\ LayoutSize = 3
    /\ "i3-workspaces" \in DOMAIN Layout(2)
    /\ Len(cmds) = 4

(* C16 *)

\* C16: the display-tool command has exactly one disable clause
\* (--output X --off) for every identity X of the disabled set and no other
\* disable clause, and every disable clause comes after every clause with
\* --mode and --pos.
C16_DisableClauses ==
    cmd # None =>
        /\ OffOutputs = disabled
        /\ Cardinality(IndexesOf(cmd, T_off)) = Cardinality(disabled)
        /\ \A k \in IndexesOf(cmd, T_off) :
              /\ cmd[k - 2] = T_output
              /\ \A m \in IndexesOf(cmd, T_mode) \cup IndexesOf(cmd, T_pos) : m < k - 2

\* Two disabled outputs and an enabled one.
C16_Witness ==
    /\ cmd # None
    /\ Cardinality(disabled) = 2
    /\ LayoutSize = 1
    /\ Cardinality(IndexesOf(cmd, T_off)) = 2

(* C17 *)

\* A report with two headers, each followed by its descriptor block, a plain
\* mode line and its preferred mode line (1920x1200 and 1920x1080).
TwoMonitorReport == <<L_SCREEN>> \o Section(1, "preferred") \o Section(2, "preferred")

\* That report was parsed (its last line is the last one read) and the
\* configuration gives blob A order 1 and blob B order 2 and no other key.
TwoMonitorRun ==
    /\ Configured
    /\ nread = Len(TwoMonitorReport)
    /\ line = TwoMonitorReport[Len(TwoMonitorReport)]
    /\ seen = {Port(1), Port(2)}
    /\ DOMAIN res = seen
    /\ res[Port(1)]["edid"] = Blob(1)
    /\ res[Port(2)]["edid"] = Blob(2)
    /\ {Blob(1), Blob(2)} \subseteq DOMAIN config
    /\ config[Blob(1)] = ("order" :> 1)
    /\ config[Blob(2)] = ("order" :> 2)

PanningOf(resolution, x_pos, force_panning) ==
    IF force_panning
    THEN <<T_panning, resolution \o <<"+">> \o x_pos \o <<"+", "0">> >>
    ELSE <<>>

TwoMonitorCommand(force_panning) ==
    <<T_xrandr, T_fb, ResolutionText(<<"3", "8", "4", "0">>, D1200)>>
    \o <<T_output, Port(1), T_mode, ResolutionText(D1920, D1200), T_pos, <<"0", "x", "0">> >>
    \o PanningOf(ResolutionText(D1920, D1200), <<"0">>, force_panning)
    \o <<T_primary>>
    \o <<T_output, Port(2), T_mode, ResolutionText(D1920, D1080), T_pos, D1920 \o <<"x", "0">> >>
    \o PanningOf(ResolutionText(D1920, D1080), D1920, force_panning)

\* C17: for the report with two headers, blobs A and B, preferred resolutions
\* 1920x1200 and 1920x1080, and a configuration with A at order 1 and B at
\* order 2, the layout is A, B and the display-tool command, once built, asks
\* for the framebuffer 3840x1200, puts A's output at 0x0 and B's at 1920x0,
\* names both outputs, has no --off clause and has --primary in A's clause only.
C17_EndToEnd ==
    TwoMonitorRun =>
        /\ ordered_monitors = <<Port(1), Port(2)>>
        /\ exit_status # 1
        /\ pc # "gen_xrandr" =>
              /\ cmd = TwoMonitorCommand(args.force_panning)
              /\ IndexesOf(cmd, T_off) = {}
              /\ \A k \in IndexesOf(cmd, T_primary) : ClauseOutput(k) = Port(1)
              /\ Cardinality(IndexesOf(cmd, T_primary)) = 1

C17_Witness ==
    /\ TwoMonitorRun
    /\ pc = "exit" /\ exit_status = 0
    /\ ~args.force_panning
    /\ cmd = TwoMonitorCommand(FALSE)
    /\ Len(cmd) = 16

(* C18 *)

\* C18: a line that ends a descriptor block (state munching, ':' in the line)
\* keeps what the entry of the tracked identity already holds: a resolution
\* recorded for the identity before the line is recorded after it.
C18_EntryKept ==
    [][ (/\ pc = "parse"
         /\ state = "munching"
         /\ state' = "scanning"
         /\ identifier \in DOMAIN res
         /\ "resolution" \in DOMAIN res[identifier])
        => /\ identifier \in DOMAIN res'
           /\ "resolution" \in DOMAIN res'[identifier]
           /\ res'[identifier]["resolution"] = res[identifier]["resolution"] ]_vars

(* C19 *)

\* C19: the step of configure_monitors leaves the detected-output mapping and
\* the configuration as they were, and the step of generate_xrandr_command
\* leaves the mapping, the ordered layout and the disabled set as they were.
C19_Pure ==
    [][ /\ pc = "configure" => (res' = res /\ config' = config)
        /\ pc = "gen_xrandr" =>
              (res' = res /\ ordered_monitors' = ordered_monitors /\ disabled' = disabled)
      ]_vars

(* C20 *)

\* offset_1 .. offset_k as the --pos clauses of the command give them.
RECURSIVE PlacedOffsets(_)
PlacedOffsets(k) ==
    IF k = 0
    THEN <<>>
    ELSE Append(PlacedOffsets(k - 1),
                ToInt(Split(cmd[NthIndex(IndexesOf(cmd, T_pos), k) + 1], "x")[1]))

\* Effective width and height of the first k monitors of the layout.
RECURSIVE PlacedSizes(_)
PlacedSizes(k) ==
    IF k = 0
    THEN <<>>
    ELSE Append(PlacedSizes(k - 1), <<ExtentX(Layout(k)), ExtentY(Layout(k))>>)

\* C20: in a display-tool command built for a layout, with offset_i read from
\* the i-th --pos clause and the framebuffer from --fb, every monitor's
\* rectangle (offset_i, 0, effective width, effective height) lies inside the
\* framebuffer, the horizontal intervals of two monitors do not overlap, and
\* consecutive monitors are adjacent: offset_{i+1} = offset_i + width_i.
C20_Rectangles ==
    HasCommand =>
        LET pos       == IndexesOf(cmd, T_pos)
            offset    == PlacedOffsets(LayoutSize)
            size      == PlacedSizes(LayoutSize)
            fb        == Split(cmd[3], "x")
            fb_width  == ToInt(fb[1])
            fb_height == ToInt(fb[2])
        IN /\ Cardinality(pos) = LayoutSize
           /\ \A i \in 1..LayoutSize :
                 /\ cmd[NthIndex(pos, i) + 1] = ToStr(offset[i]) \o <<"x", "0">>
                 /\ offset[i] + size[i][1] <= fb_width
                 /\ size[i][2] <= fb_height
           /\ \A i, j \in 1..LayoutSize :
                 i # j => \/ offset[i] + size[i][1] <= offset[j]
                          \/ offset[j] + size[j][1] <= offset[i]
           /\ \A i \in 1..(LayoutSize - 1) : offset[i + 1] = offset[i] + size[i][1]

\* Three monitors, the second turned: offsets 0, 1920 and 3120.
C20_Witness ==
    /\ HasCommand
    /\ LayoutSize = 3
    /\ ~Turned(Layout(1)) /\ Turned(Layout(2)) /\ ~Turned(Layout(3))
    /\ Layout(2)["resolution"] = ResolutionText(D1920, D1200)
    /\ cmd[NthIndex(IndexesOf(cmd, T_pos), 3) + 1] = <<"3", "1", "2", "0", "x", "0">>

=============================================================================
